---------------------------- MODULE Spec2Model ----------------------------
(***************************************************************************)
(* A model of package contains: the sparse Set (filter-bucketed key lists) *)
(* and the Dense bitset.  Go slices are modelled with their length and     *)
(* capacity kept apart, because Reset truncates the length and keeps the   *)
(* backing array, and the code reads what it left there.                   *)
(*                                                                         *)
(* A machine word is the set of the positions of its one bits, so          *)
(* a & b is the intersection, a | b the union, a &^ b the difference and   *)
(* bits.OnesCount64 the cardinality.                                       *)
(***************************************************************************)
EXTENDS Integers, Sequences, FiniteSets

VARIABLES
    set,        \* the Set: filters and keys
    op,         \* the last call on the Set, with what it returned
    added,      \* history: the keys added since the most recent Reset
    prevAdded,  \* history: the value of added before the last call
    order,      \* history: the keys of added, in the order they were added
    twin,       \* a Set that every Reset replaces by the zero Set and that
                \* is given the same Add, Contains and Keys calls as set
    twinOp,     \* the last call on twin, with what it returned
    dense,      \* the Dense: the slice v
    dop,        \* the last call on the Dense, with what it returned
    dadded,     \* history: the keys added to the Dense since the last Reset
    dprev       \* history: the value of dadded before the last call

vars == <<set, op, added, prevAdded, order, twin, twinOp, dense, dop, dadded, dprev>>
setVars == <<set, op, added, prevAdded, order, twin, twinOp>>
denseVars == <<dense, dop, dadded, dprev>>

----------------------------------------------------------------------------
(* Bounds and program constants *)

\* How many of the sample keys the calls on a Set draw from.
NumKeys == 5
\* The highest word index the keys of the calls on a Dense reach.
MaxWord == 2

minDiff == 2
defCap == 8
\* The width of uintptr: filter takes its 64-bit branch.
UintptrBits == 64
\* bits.UintSize
wordSize == 64

\* The keys of the Set's calls, in the order the bound admits them.  Their
\* filters make every branch of Add happen within five keys: 0 and 2 fold
\* into one list, 352 has one bit outside that list's filter and starts a
\* second list, 401 widens the second list, and then both filters cover
\* filter(4723).  Keys stay below 2^15 so that LCG's digit products fit.
KeySample == <<0, 2, 352, 401, 4723, 1, 3, 6>>
Keys == {KeySample[i] : i \in 1..NumKeys}
NoKey == 0 - 1

Min(S) == CHOOSE x \in S : \A y \in S : x <= y
Range(q) == {q[i] : i \in 1..Len(q)}

RECURSIVE Pow2(_)
Pow2(n) == IF n = 0 THEN 1 ELSE 2 * Pow2(n - 1)

----------------------------------------------------------------------------
(* filter: the linear congruential scramble of a key *)

\* The LCG constants as base-65536 digits, least significant first.
\* 6364136223846793005 = 0x5851F42D4C957F2D
MMIXMul == <<32557, 19605, 62509, 22609>>
\* 1442695040888963407 = 0x14057B7EF767814F
MMIXInc == <<33103, 63335, 31614, 5125>>
\* 1664525 = 0x0019660D
NRMul == <<26125, 25>>
\* 1013904223 = 0x3C6EF35F
NRInc == <<62303, 15470>>

\* The carry into digit i of mul*key + inc.
RECURSIVE LCGCarry(_, _, _, _)
LCGCarry(mul, inc, key, i) ==
    IF i = 1 THEN 0
    ELSE (mul[i - 1] * key + inc[i - 1] + LCGCarry(mul, inc, key, i - 1)) \div 65536

\* mul*key + inc modulo 2^(16 * Len(mul)), as the set of its one bits.
LCG(mul, inc, key) ==
    LET digit(i) == (mul[i] * key + inc[i] + LCGCarry(mul, inc, key, i)) % 65536
    IN {b \in 0..(16 * Len(mul) - 1) :
            (digit((b \div 16) + 1) \div Pow2(b % 16)) % 2 = 1}

filter(key) ==
    IF UintptrBits # 32
    THEN LCG(MMIXMul, MMIXInc, key)
    ELSE LCG(NRMul, NRInc, key)

\* filter on the keys of the calls, computed once.
filterOf == [key \in Keys |-> filter(key)]

----------------------------------------------------------------------------
(* Go slices *)

\* The capacity append gives a slice of capacity c that is full.
appendCap(c) == IF c = 0 THEN 1 ELSE 2 * c

\* A list of keys: the visible elements and the capacity of its backing.
NilList == [elems |-> <<>>, cap |-> 0]
\* make([]uintptr, 0, defCap)
MakeList == [elems |-> <<>>, cap |-> defCap]

\* append(l, key) on a list of keys; alloc tells whether it reallocated.
appendKey(l, key) ==
    IF Len(l.elems) < l.cap
    THEN [list |-> [elems |-> Append(l.elems, key), cap |-> l.cap], alloc |-> FALSE]
    ELSE [list |-> [elems |-> Append(l.elems, key), cap |-> appendCap(l.cap)],
          alloc |-> TRUE]

\* The zero Set: both slices nil.  keys.arr is the whole backing array of
\* s.keys (its length is cap(s.keys)) and keys.len is len(s.keys).
ZeroSet ==
    [filters |-> [nil |-> TRUE, elems |-> <<>>, cap |-> 0],
     keys    |-> [arr |-> <<>>, len |-> 0]]


\* append(s.filters, r)
appendFilter(f, r) ==
    [nil   |-> FALSE,
     elems |-> Append(f.elems, r),
     cap   |-> IF Len(f.elems) < f.cap THEN f.cap ELSE appendCap(f.cap)]

\* append(s.keys, l): within the capacity it writes the next slot of the
\* backing array; otherwise it copies the visible lists to a larger array
\* whose further slots are nil.
appendList(ks, l) ==
    IF ks.len < Len(ks.arr)
    THEN [arr |-> [ks.arr EXCEPT ![ks.len + 1] = l], len |-> ks.len + 1]
    ELSE [arr |-> [i \in 1..appendCap(Len(ks.arr)) |->
                      IF i <= ks.len THEN ks.arr[i]
                      ELSE IF i = ks.len + 1 THEN l ELSE NilList],
          len |-> ks.len + 1]

----------------------------------------------------------------------------
(* Set *)

Max(S) == CHOOSE x \in S : \A y \in S : x >= y

\* A search that keeps the last list whose filter covers r.
LastMatch(s, r) ==
    LET m == {k \in 1..Len(s.filters.elems) : s.filters.elems[k] \cap r = r}
    IN IF m = {} THEN 0 ELSE Max(m)

\* The index (from 1) of the first list whose filter covers r, 0 if none:
\* the loop "for k, f := range s.filters { if f&r == r".
FirstMatch(s, r) ==
    LET m == {k \in 1..Len(s.filters.elems) : s.filters.elems[k] \cap r = r}
    IN IF m = {} THEN 0 ELSE Min(m)

\* What a call leaves: the Set, the value returned, whether it allocated, and
\* whether an index was out of range.
AddResult(s, ret, alloc, panic) ==
    [set |-> s, ret |-> ret, alloc |-> alloc, panic |-> panic]

\* A scan that compares the first element only.
hasKeyFirstOnly(l, key) == Len(l.elems) >= 1 /\ l.elems[1] = key

\* Add's scan of one list: "for _, v := range s.keys[k] { if v == key".
hasKey(l, key) == key \in Range(l.elems)

\* A widening that ORs r into the first filter.
widenFirst(f, n, r) == [f EXCEPT !.elems[1] = @ \cup r]

\* A widening that leaves the filter as it was.
widenNone(f, n, r) == f

\* "s.filters[k] |= r", n the index (from 1) of the filter.
widen(f, n, r) == [f EXCEPT !.elems[n] = @ \cup r]

\* The index (from 1) of the last list, 0 if there is none:
\* "k := len(s.filters) - 1" names it from 0.
lastList(s) == Len(s.filters.elems)

\* Set.Add
SetAdd(s, key) ==
    LET r == filterOf[key]
        n == lastList(s)
        m == FirstMatch(s, r)
    IN IF m # 0
       THEN \* a filter covers r: look in that list only
            IF m > s.keys.len
            THEN AddResult(s, FALSE, FALSE, TRUE)
            ELSE IF hasKey(s.keys.arr[m], key)
            THEN AddResult(s, FALSE, FALSE, FALSE)
            ELSE LET a == appendKey(s.keys.arr[m], key)
                 IN AddResult([s EXCEPT !.keys.arr[m] = a.list],
                              TRUE, a.alloc, FALSE)
       ELSE IF n >= 1 /\ Cardinality(r \ s.filters.elems[n]) >= minDiff
       THEN \* the key adds at least minDiff bits to the last filter
            LET f == widen(s.filters, n, r)
            IN IF n > s.keys.len
               THEN AddResult([s EXCEPT !.filters = f], FALSE, FALSE, TRUE)
               ELSE LET a == appendKey(s.keys.arr[n], key)
                    IN AddResult([filters |-> f,
                                  keys |-> [s.keys EXCEPT !.arr[n] = a.list]],
                                 TRUE, a.alloc, FALSE)
       ELSE \* a new list, in a slot left by Reset if there is one
            LET f == appendFilter(s.filters, r)
                grew == Len(s.filters.elems) >= s.filters.cap
                reuse == n < Len(s.keys.arr)
                ks == IF reuse
                      THEN [arr |-> s.keys.arr, len |-> n + 1]
                      ELSE appendList(s.keys, MakeList)
            IN IF n + 1 > ks.len
               THEN AddResult([filters |-> f, keys |-> ks], FALSE, grew \/ ~reuse, TRUE)
               ELSE LET a == appendKey(ks.arr[n + 1], key)
                    IN AddResult([filters |-> f,
                                  keys |-> [ks EXCEPT !.arr[n + 1] = a.list]],
                                 TRUE, grew \/ ~reuse \/ a.alloc, FALSE)

\* A lookup that stops at the first list whose filter covers the key's.
SetContainsFirstList(s, key) ==
    LET r == filterOf[key]
    IN [ret |-> Len(s.filters.elems) >= 1 /\ s.filters.elems[1] \cap r = r
                /\ 1 <= s.keys.len /\ key \in Range(s.keys.arr[1].elems),
        panic |-> FALSE]

\* Set.Contains: every list whose filter covers filter(key) is scanned.
SetContains(s, key) ==
    LET r == filterOf[key]
        m == {k \in 1..Len(s.filters.elems) : s.filters.elems[k] \cap r = r}
        \* the lists scanned before the key is found
        hit == {k \in m : k <= s.keys.len /\ key \in Range(s.keys.arr[k].elems)}
        upto == IF hit = {} THEN m ELSE {k \in m : k <= Min(hit)}
    IN [ret |-> hit # {} /\ \A k \in upto : k <= s.keys.len,
        panic |-> \E k \in upto : k > s.keys.len]

\* The concatenation of the visible lists i..ks.len.
RECURSIVE Flatten(_, _)
Flatten(ks, i) ==
    IF i > ks.len THEN <<>> ELSE ks.arr[i].elems \o Flatten(ks, i + 1)

\* A Keys that returns after the first list.
SetKeysFirstList(s) ==
    LET e == IF s.keys.len >= 1 THEN s.keys.arr[1].elems ELSE <<>>
    IN [nil |-> e = <<>>, elems |-> e]

\* Set.Keys: r stays nil unless something is appended to it.
SetKeys(s) ==
    LET e == Flatten(s.keys, 1)
    IN [nil |-> e = <<>>, elems |-> e]

\* A Reset whose test of s.filters is inverted.
SetResetInverted(s) ==
    IF s.filters.nil
    THEN [filters |-> [s.filters EXCEPT !.elems = <<>>],
          keys |-> [s.keys EXCEPT !.arr = [i \in 1..Len(@) |->
                        IF i <= s.keys.len THEN [@[i] EXCEPT !.elems = <<>>]
                        ELSE @[i]]]]
    ELSE s

\* A Reset that truncates the filters and leaves the lists as they are.
SetResetFiltersOnly(s) ==
    IF ~s.filters.nil THEN [s EXCEPT !.filters.elems = <<>>] ELSE s

\* A Reset that sets every list to nil instead of truncating it.
SetResetDropLists(s) ==
    IF ~s.filters.nil
    THEN [filters |-> [s.filters EXCEPT !.elems = <<>>],
          keys |-> [s.keys EXCEPT !.arr = [i \in 1..Len(@) |->
                        IF i <= s.keys.len THEN NilList ELSE @[i]]]]
    ELSE s

\* Set.Reset: s.filters[:0], and v[:0] for every list in range of s.keys;
\* s.keys keeps its length.
SetReset(s) ==
    IF ~s.filters.nil
    THEN [filters |-> [s.filters EXCEPT !.elems = <<>>],
          keys |-> [s.keys EXCEPT !.arr = [i \in 1..Len(@) |->
                        IF i <= s.keys.len THEN [@[i] EXCEPT !.elems = <<>>]
                        ELSE @[i]]]]
    ELSE s

----------------------------------------------------------------------------
(* The calls on a Set *)

NilKeys == [nil |-> TRUE, elems |-> <<>>]

Call(name, key, ret, out, alloc, panic) ==
    [name |-> name, key |-> key, ret |-> ret, out |-> out,
     alloc |-> alloc, panic |-> panic]

SetInit ==
    /\ set = ZeroSet
    /\ op = Call("new", NoKey, FALSE, NilKeys, FALSE, FALSE)
    /\ added = {}
    /\ prevAdded = {}
    /\ order = <<>>
    /\ twin = ZeroSet
    /\ twinOp = Call("new", NoKey, FALSE, NilKeys, FALSE, FALSE)

Add(key) ==
    LET a == SetAdd(set, key)
        b == SetAdd(twin, key)
    IN /\ set' = a.set
       /\ op' = Call("Add", key, a.ret, NilKeys, a.alloc, a.panic)
       /\ added' = added \cup {key}
       /\ prevAdded' = added
       /\ order' = IF key \in added THEN order ELSE Append(order, key)
       /\ twin' = b.set
       /\ twinOp' = Call("Add", key, b.ret, NilKeys, b.alloc, b.panic)

Contains(key) ==
    LET c == SetContains(set, key)
        d == SetContains(twin, key)
    IN /\ set' = set
       /\ op' = Call("Contains", key, c.ret, NilKeys, FALSE, c.panic)
       /\ added' = added
       /\ prevAdded' = added
       /\ UNCHANGED <<order, twin>>
       /\ twinOp' = Call("Contains", key, d.ret, NilKeys, FALSE, d.panic)

KeysCall ==
    /\ set' = set
    /\ op' = Call("Keys", NoKey, FALSE, SetKeys(set), FALSE, FALSE)
    /\ added' = added
    /\ prevAdded' = added
    /\ UNCHANGED <<order, twin>>
    /\ twinOp' = Call("Keys", NoKey, FALSE, SetKeys(twin), FALSE, FALSE)

Reset ==
    /\ set' = SetReset(set)
    /\ op' = Call("Reset", NoKey, FALSE, NilKeys, FALSE, FALSE)
    /\ added' = {}
    /\ prevAdded' = added
    /\ order' = <<>>
    /\ twin' = ZeroSet
    /\ twinOp' = Call("Reset", NoKey, FALSE, NilKeys, FALSE, FALSE)

----------------------------------------------------------------------------
(* Dense *)

\* The keys of the calls on a Dense: the first and the last bit of each word.
DenseKeys == {w * wordSize + b : w \in 0..MaxWord, b \in {0, wordSize - 1}}

\* The zero Dense: v is nil.  arr is the whole backing array of s.v (its
\* length is cap(s.v)), each word the set of its one bits; len is len(s.v).
ZeroDense == [nil |-> TRUE, arr |-> <<>>, len |-> 0]

\* What grow leaves: the Dense and whether it called make.
GrowResult(d, alloc) == [dense |-> d, alloc |-> alloc]

\* A grow that extends within the capacity without zeroing the words.
growNoZero(d, w) ==
    IF w >= Len(d.arr)
    THEN GrowResult([nil |-> FALSE,
                     arr |-> [i \in 1..w |-> IF i <= d.len THEN d.arr[i] ELSE {}],
                     len |-> w], TRUE)
    ELSE IF w >= d.len
    THEN GrowResult([d EXCEPT !.len = w], FALSE)
    ELSE GrowResult(d, FALSE)

\* A grow that reallocates without copying the words in use.
growNoCopy(d, w) ==
    IF w >= Len(d.arr)
    THEN GrowResult([nil |-> FALSE, arr |-> [i \in 1..w |-> {}], len |-> w], TRUE)
    ELSE IF w >= d.len
    THEN GrowResult([d EXCEPT !.len = w,
                              !.arr = [i \in 1..Len(@) |->
                                  IF d.len < i /\ i <= w THEN {} ELSE @[i]]],
                    FALSE)
    ELSE GrowResult(d, FALSE)

\* Dense.grow(w)
grow(d, w) ==
    IF w >= Len(d.arr)
    THEN \* make([]uint, w); copy(v, s.v)
         GrowResult([nil |-> FALSE,
                     arr |-> [i \in 1..w |-> IF i <= d.len THEN d.arr[i] ELSE {}],
                     len |-> w], TRUE)
    ELSE IF w >= d.len
    THEN \* s.v[:w], and the words from the old length on set to zero
         GrowResult([d EXCEPT !.len = w,
                              !.arr = [i \in 1..Len(@) |->
                                  IF d.len < i /\ i <= w THEN {} ELSE @[i]]],
                    FALSE)
    ELSE GrowResult(d, FALSE)

\* What a call on a Dense leaves: the Dense, whether it allocated, the word
\* count it asked grow for (NoKey if it did not call grow), and whether an
\* index was out of range.
DenseResult(d, alloc, need, panic) ==
    [dense |-> d, alloc |-> alloc, need |-> need, panic |-> panic]

\* An Add that sets the bit of the key's offset in word 0.
DenseAddWordZero(d, key) ==
    LET w == key \div wordSize
        g == IF w >= d.len THEN grow(d, w + 1) ELSE GrowResult(d, FALSE)
    IN DenseResult([g.dense EXCEPT !.arr[1] = @ \cup {key % wordSize}],
                   g.alloc, IF w >= d.len THEN w + 1 ELSE NoKey, FALSE)

\* Dense.Add
DenseAdd(d, key) ==
    LET w == key \div wordSize
        called == w >= d.len
        g == IF called THEN grow(d, w + 1) ELSE GrowResult(d, FALSE)
        need == IF called THEN w + 1 ELSE NoKey
    IN IF w >= g.dense.len
       THEN DenseResult(g.dense, g.alloc, need, TRUE)
       ELSE DenseResult([g.dense EXCEPT !.arr[w + 1] = @ \cup {key % wordSize}],
                        g.alloc, need, FALSE)

\* Dense.Contains
DenseContains(d, key) ==
    LET w == key \div wordSize
    IN IF w >= d.len THEN FALSE ELSE (key % wordSize) \in d.arr[w + 1]

\* A Contains that, like Add, grows the Dense to the word of the key first.
DenseContainsGrows(d, key) ==
    LET w == key \div wordSize
        g == IF w >= d.len THEN grow(d, w + 1) ELSE GrowResult(d, FALSE)
    IN [dense |-> g.dense, ret |-> DenseContains(g.dense, key),
        alloc |-> g.alloc, panic |-> FALSE]

\* The call s.Contains(key): what it returns and what it leaves of s.  It
\* writes nothing, calls neither grow nor make, and indexes s.v only below
\* len(s.v).
DenseContainsCall(d, key) ==
    [dense |-> d, ret |-> DenseContains(d, key), alloc |-> FALSE, panic |-> FALSE]

\* Dense.Reset
DenseReset(d) == IF ~d.nil THEN [d EXCEPT !.len = 0] ELSE d

\* Dense.Grow
DenseGrow(d, key) ==
    LET w == (key + wordSize - 1) \div wordSize
        g == grow(d, w)
    IN DenseResult(g.dense, g.alloc, w, FALSE)

----------------------------------------------------------------------------
(* The calls on a Dense *)

DCall(name, key, ret, alloc, need, panic) ==
    [name |-> name, key |-> key, ret |-> ret, alloc |-> alloc,
     need |-> need, panic |-> panic]

DenseInit ==
    /\ dense = ZeroDense
    /\ dop = DCall("new", NoKey, FALSE, FALSE, NoKey, FALSE)
    /\ dadded = {}
    /\ dprev = {}

DAdd(key) ==
    LET a == DenseAdd(dense, key)
    IN /\ dense' = a.dense
       /\ dop' = DCall("Add", key, FALSE, a.alloc, a.need, a.panic)
       /\ dadded' = dadded \cup {key}
       /\ dprev' = dadded

DContains(key) ==
    LET c == DenseContainsCall(dense, key)
    IN /\ dense' = c.dense
       /\ dop' = DCall("Contains", key, c.ret, c.alloc, NoKey, c.panic)
    /\ dadded' = dadded
    /\ dprev' = dadded

DGrow(key) ==
    LET g == DenseGrow(dense, key)
    IN /\ dense' = g.dense
       /\ dop' = DCall("Grow", key, FALSE, g.alloc, g.need, g.panic)
       /\ dadded' = dadded
       /\ dprev' = dadded

DReset ==
    /\ dense' = DenseReset(dense)
    /\ dop' = DCall("Reset", NoKey, FALSE, FALSE, NoKey, FALSE)
    /\ dadded' = {}
    /\ dprev' = dadded

----------------------------------------------------------------------------
(* Specifications: the two types share no state, so each is run alone *)

Init == SetInit /\ DenseInit

Next ==
    \/ \E key \in Keys : Add(key) /\ UNCHANGED denseVars
    \/ \E key \in Keys : Contains(key) /\ UNCHANGED denseVars
    \/ KeysCall /\ UNCHANGED denseVars
    \/ Reset /\ UNCHANGED denseVars

Spec == Init /\ [][Next]_vars

DenseNext ==
    \/ \E key \in DenseKeys : DAdd(key) /\ UNCHANGED setVars
    \/ \E key \in DenseKeys : DContains(key) /\ UNCHANGED setVars
    \/ \E key \in DenseKeys : DGrow(key) /\ UNCHANGED setVars
    \/ DReset /\ UNCHANGED setVars

DenseSpec == Init /\ [][DenseNext]_vars

----------------------------------------------------------------------------
(* Set: what Add, Contains, Keys and Reset return *)

\* Number of lists in use.
NumLists == Len(set.filters.elems)

\* C1: Add(k) returns true if and only if k has not been added since the
\* most recent Reset (or since creation).
C1_AddTrueIffNew ==
    op.name = "Add" => (~op.panic /\ op.ret = (op.key \notin prevAdded))

\* A repeated Add returned false with other keys added since, two lists in
\* use and the key held by the second one.
C1_Witness ==
    /\ op.name = "Add" /\ ~op.ret /\ op.key \in prevAdded
    /\ Cardinality(added) >= 4
    /\ NumLists = 2
    /\ op.key \in Range(set.keys.arr[2].elems)
    /\ op.key # set.keys.arr[2].elems[Len(set.keys.arr[2].elems)]

\* C2: Contains(k) returns true for every key added since the most recent
\* Reset and false for every other key.
C2_ContainsIffAdded ==
    op.name = "Contains" => (~op.panic /\ op.ret = (op.key \in added))

\* Contains found a key held by the second of two lists.
C2_Witness ==
    /\ op.name = "Contains" /\ op.ret
    /\ NumLists = 2
    /\ op.key \in Range(set.keys.arr[2].elems)
    /\ Cardinality(added) >= 4

\* C3: right after Reset, Contains returns false for every key, and Add
\* returns true for every key the Set held before the Reset.
C3_ResetClears ==
    op.name = "Reset" =>
        /\ \A k \in Keys : ~SetContains(set, k).ret
        /\ \A k \in prevAdded : SetAdd(set, k).ret /\ ~SetAdd(set, k).panic

\* Reset of a Set that held at least four keys in two lists.
C3_Witness ==
    /\ op.name = "Reset"
    /\ Cardinality(prevAdded) >= 4
    /\ set.keys.len = 2

\* C4: Keys() returns the keys added since the most recent Reset, each once.
C4_KeysExact ==
    op.name = "Keys" =>
        /\ Len(op.out.elems) = Cardinality(added)
        /\ Range(op.out.elems) = added

\* Keys() of a Set holding at least four keys in two lists, not in
\* ascending order.
C4_Witness ==
    /\ op.name = "Keys"
    /\ Cardinality(added) >= 4
    /\ NumLists = 2
    /\ op.out.elems[1] > op.out.elems[Len(op.out.elems)]

\* C5: Keys() returns nil whenever the Set holds no keys.
C5_KeysNilWhenEmpty ==
    (op.name = "Keys" /\ added = {}) => (op.out.nil /\ op.out.elems = <<>>)

\* Keys() right after the Reset of a Set that had two lists: s.keys still has
\* length two.
C5_Witness ==
    /\ op.name = "Keys" /\ added = {} /\ op.out.nil
    /\ ~set.filters.nil
    /\ set.keys.len = 2

----------------------------------------------------------------------------
(* Dense *)

\* cap(s.v)
DenseCap == Len(dense.arr)

\* C6: Contains(k) is true if and only if Add(k) was called since the most
\* recent Reset; so Add(k) changes the membership of k only, and adding k
\* again keeps it.
C6_DenseContainsIffAdded ==
    /\ \A j \in DenseKeys : DenseContains(dense, j) = (j \in dadded)
    /\ dop.name = "Contains" => dop.ret = (dop.key \in dadded)
    /\ ~dop.panic

\* A key was added a second time, with keys in other words present.
C6_Witness ==
    /\ dop.name = "Add" /\ dop.key \in dprev
    /\ Cardinality(dadded) >= 3
    /\ \E j \in dadded : j \div wordSize # dop.key \div wordSize

\* C7: Reset leaves every key absent, and a later Grow or Add makes no key
\* present other than the key added: stale words never show.
C7_NoStaleBits ==
    [][/\ dop'.name = "Reset" => \A j \in DenseKeys : ~DenseContains(dense', j)
       /\ dop'.name \in {"Grow", "Add"} =>
            \A j \in DenseKeys :
                (DenseContains(dense', j) /\ ~DenseContains(dense, j))
                    => (dop'.name = "Add" /\ j = dop'.key)]_vars

\* After a Reset, a Grow or Add extended the slice within its capacity while
\* a word beyond the new length still holds bits from before the Reset.
C7_Witness ==
    /\ dop.name \in {"Grow", "Add"} /\ ~dop.alloc
    /\ dop.need # NoKey /\ dop.need >= 1
    /\ dense.len >= 1
    /\ \E i \in (dense.len + 1)..DenseCap : dense.arr[i] # {}

\* C8: Grow(k) sets no bit and clears no bit.
C8_GrowKeepsMembership ==
    [][dop'.name = "Grow" =>
        \A j \in DenseKeys : DenseContains(dense', j) = DenseContains(dense, j)]_vars

\* A Grow that reallocated a Dense holding keys in two words.
C8_Witness ==
    /\ dop.name = "Grow" /\ dop.alloc
    /\ \E i, j \in dadded : i \div wordSize # j \div wordSize

\* C9: after Grow(k), Add(j) with j <= k does not reallocate.
C9_NoReallocAfterGrow ==
    [][(dop.name = "Grow" /\ dop'.name = "Add" /\ dop'.key <= dop.key)
        => ~dop'.alloc]_vars

\* C10: Dense reallocates only when the word count asked for exceeds the
\* capacity; an Add or Grow that asks for at most the capacity kept by Reset
\* does not reallocate.
C10_ReallocOnlyBeyondCap ==
    [][dop'.alloc => dop'.need > DenseCap]_vars

\* C20: a Grow that asks for no more words than the Dense has in its length
\* does not reallocate and leaves the length, the capacity and every word
\* as they were.
C20_GrowNoOpWhenLargeEnough ==
    [][(dop'.name = "Grow" /\ dop'.need <= dense.len) =>
         (~dop'.alloc /\ dense' = dense)]_vars

\* C21: Contains leaves the Dense as it was, its length, its capacity and
\* every word, whatever the key's word index, allocates nothing, and
\* returns false for a key whose word index is not below the length.
C21_ContainsChangesNothing ==
    [][dop'.name = "Contains" =>
         /\ dense' = dense
         /\ ~dop'.alloc /\ ~dop'.panic
         /\ dop'.key \div wordSize >= dense.len => ~dop'.ret]_vars

\* Contains was asked for a key whose word is beyond the capacity of a
\* Dense that holds keys, and returned false.
C21_Witness ==
    /\ dop.name = "Contains" /\ ~dop.ret
    /\ dadded # {}
    /\ dense.len >= 1
    /\ dop.key \div wordSize >= DenseCap

----------------------------------------------------------------------------
(* Set: storage, lists and filters *)

\* Adding the keys of q to s in order, every Add returns true, allocates
\* nothing and finds its indices in range.
RECURSIVE Refills(_, _)
Refills(s, q) ==
    \/ q = <<>>
    \/ LET a == SetAdd(s, Head(q))
       IN a.ret /\ ~a.alloc /\ ~a.panic /\ Refills(a.set, Tail(q))

\* C11: after Reset, re-adding in the same order the keys the Set was
\* populated with, or any prefix of them, allocates nothing.
C11_ResetKeepsStorage ==
    [][op'.name = "Reset" => Refills(set', order)]_vars

\* After a Reset, the Add of a fourth key started the second list in a slot
\* of s.keys that was kept, without allocating.
C11_Witness ==
    /\ op.name = "Add" /\ op.ret /\ ~op.alloc
    /\ Cardinality(added) >= 4
    /\ NumLists = 2
    /\ set.keys.arr[2].elems = <<op.key>>

\* The lists of s in use, one per filter, as Add and Contains read them.
ListsOf(s) == [i \in 1..Len(s.filters.elems) |-> s.keys.arr[i].elems]

\* C12: a Set that was populated and Reset returns what a zero Set returns
\* for the same calls, and files the keys in the same lists in the same order.
C12_ResetLikeZero ==
    /\ op.ret = twinOp.ret
    /\ op.out = twinOp.out
    /\ op.panic = twinOp.panic
    /\ set.filters.elems = twin.filters.elems
    /\ ListsOf(set) = ListsOf(twin)

\* Keys() of a Set that holds three keys or more and still has the slots of
\* s.keys it had before a Reset, which the Set that started from zero lacks.
C12_Witness ==
    /\ op.name = "Keys"
    /\ Cardinality(added) >= 3
    /\ Len(set.keys.arr) > Len(twin.keys.arr)
    /\ op.out = twinOp.out

\* The places of key k in the lists of s.keys: list and position.
Places(k) ==
    UNION {{<<i, j>> : j \in {p \in 1..Len(set.keys.arr[i].elems) :
                                    set.keys.arr[i].elems[p] = k}} :
           i \in 1..set.keys.len}

\* C13: every key present is in exactly one list, exactly once; a key not
\* present is in none.
C13_KeyInOnePlace ==
    \A k \in Keys : Cardinality(Places(k)) = IF k \in added THEN 1 ELSE 0

\* A key of the second list was added again while both lists held two keys
\* or more.
C13_Witness ==
    /\ op.name = "Add" /\ op.key \in prevAdded
    /\ NumLists = 2
    /\ Len(set.keys.arr[1].elems) >= 2
    /\ Len(set.keys.arr[2].elems) >= 2
    /\ op.key \in Range(set.keys.arr[2].elems)

\* Key x is held by list j while the filter of an earlier list covers
\* filter(x), so that Add(x) would stop at the earlier list.
Hazard(s, x) ==
    \E j \in 1..Len(s.filters.elems) :
        /\ x \in Range(s.keys.arr[j].elems)
        /\ \E i \in 1..(j - 1) : s.filters.elems[i] \cap filterOf[x] = filterOf[x]

\* The Set after the Add calls of q on s, one after the other.
RECURSIVE AddAll(_, _)
AddAll(s, q) == IF q = <<>> THEN s ELSE AddAll(SetAdd(s, Head(q)).set, Tail(q))

\* The sequences of at most n keys.
RECURSIVE KeySeqs(_)
KeySeqs(n) ==
    IF n = 0 THEN {<<>>}
    ELSE LET shorter == KeySeqs(n - 1)
         IN shorter \cup {Append(q, k) : q \in shorter, k \in Keys}

\* C14 as stated: some sequence of Add calls (here of up to NumKeys + 1
\* calls on a new Set) leaves a key x in a list behind one whose filter
\* covers filter(x), and a further Add(x) then appends x again and returns
\* true.
C14_HazardReachable ==
    op.name = "new" =>
        \E q \in KeySeqs(NumKeys + 1) : \E x \in Keys :
            LET s == AddAll(set, q)
            IN Hazard(s, x) /\ SetAdd(s, x).ret

\* C14, amended: no calls lead there.  A key is never held behind a list
\* whose filter covers it, and Add of a key that is present returns false
\* and leaves the Set as it is.
C14_NoHazard ==
    \A x \in Keys :
        /\ ~Hazard(set, x)
        /\ x \in added => (~SetAdd(set, x).ret /\ SetAdd(set, x).set = set)

\* A key of the second list was added again and Add returned false, the
\* first list having taken three keys into its filter.
C14_Witness ==
    /\ op.name = "Add" /\ ~op.ret
    /\ NumLists = 2
    /\ op.key \in Range(set.keys.arr[2].elems)
    /\ Len(set.keys.arr[1].elems) >= 3

\* C15: the filter of every list holds every bit of the filter of every
\* key the list holds.
C15_FilterCoversKeys ==
    \A i \in 1..NumLists : \A p \in 1..Len(set.keys.arr[i].elems) :
        filterOf[set.keys.arr[i].elems[p]] \subseteq set.filters.elems[i]

\* The second list took a key by widening: its filter is wider than the
\* filter of the key it began with, and the key just added is its last.
C15_Witness ==
    /\ op.name = "Add" /\ op.ret
    /\ NumLists = 2
    /\ Len(set.keys.arr[2].elems) >= 2
    /\ set.keys.arr[2].elems[Len(set.keys.arr[2].elems)] = op.key
    /\ set.filters.elems[2] # filterOf[set.keys.arr[2].elems[1]]
    /\ filterOf[op.key] \ filterOf[set.keys.arr[2].elems[1]] # {}

\* The lists of s whose filter covers r, by index.
Covering(s, r) ==
    {i \in 1..Len(s.filters.elems) : s.filters.elems[i] \cap r = r}

\* C16: an Add of a key whose filter r no list's filter covers either ORs r
\* into the last filter and appends the key to the last list, the number of
\* lists staying as it is (there is a last list and r has at least two bits
\* outside its filter), or appends a new list <<key>> with filter r after
\* all the lists there are.
C16_NoCoverBranch ==
    [][(op'.name = "Add" /\ Covering(set, filterOf[op'.key]) = {}) =>
         LET r == filterOf[op'.key]
             n == NumLists
         IN IF n >= 1 /\ Cardinality(r \ set.filters.elems[n]) >= 2
            THEN /\ set'.filters.elems =
                        [set.filters.elems EXCEPT ![n] = @ \cup r]
                 /\ ListsOf(set') =
                        [ListsOf(set) EXCEPT ![n] = Append(@, op'.key)]
            ELSE /\ set'.filters.elems = Append(set.filters.elems, r)
                 /\ ListsOf(set') = Append(ListsOf(set), <<op'.key>>)]_vars

\* A second list was begun for a key with exactly one bit outside the
\* filter of the first list, which holds at least two keys.
C16_Witness ==
    /\ op.name = "Add" /\ op.ret
    /\ NumLists = 2
    /\ set.keys.arr[2].elems = <<op.key>>
    /\ set.filters.elems[2] = filterOf[op.key]
    /\ Cardinality(filterOf[op.key] \ set.filters.elems[1]) = 1
    /\ Len(set.keys.arr[1].elems) >= 2

\* C17: an Add of a key whose filter some list's filter covers touches the
\* first such list only.  No filter changes and no other list changes; if
\* the key is in that list Add returns false and the Set is as it was,
\* otherwise the key is appended to that list and Add returns true.
C17_CoverBranch ==
    [][(op'.name = "Add" /\ Covering(set, filterOf[op'.key]) # {}) =>
         LET m == Min(Covering(set, filterOf[op'.key]))
             before == ListsOf(set)
         IN /\ set'.filters.elems = set.filters.elems
            /\ IF op'.key \in Range(before[m])
               THEN ~op'.ret /\ set' = set
               ELSE /\ op'.ret
                    /\ ListsOf(set') =
                           [before EXCEPT ![m] = Append(@, op'.key)]]_vars

\* The filters of both lists cover the filter of the key just added, and
\* the key went to the first list, the second list having two keys.
C17_Witness ==
    /\ op.name = "Add" /\ op.ret
    /\ NumLists = 2
    /\ Covering(set, filterOf[op.key]) = {1, 2}
    /\ set.keys.arr[1].elems[Len(set.keys.arr[1].elems)] = op.key
    /\ Len(set.keys.arr[2].elems) = 2

\* C18: no call but Reset changes the filter of a list that has a list
\* after it; only the last filter changes.
C18_OnlyLastFilterChanges ==
    [][op'.name # "Reset" =>
         \A i \in 1..(NumLists - 1) :
             set'.filters.elems[i] = set.filters.elems[i]]_vars

\* The second list has been widened, and after that the first list took
\* the key just added, the newest key of the Set.
C18_Witness ==
    /\ op.name = "Add" /\ op.ret
    /\ NumLists = 2
    /\ order[Len(order)] = op.key
    /\ op.key \in Range(set.keys.arr[1].elems)
    /\ Len(set.keys.arr[2].elems) >= 2
    /\ set.filters.elems[2] # filterOf[set.keys.arr[2].elems[1]]

\* C19: s.keys is at least as long as s.filters, and as long right after
\* an Add; no call has indexed out of range and no Add or Contains would;
\* and every list at an index past the filters is empty, the lists that
\* Reset left in s.keys and in its backing array among them.
C19_ListsInRange ==
    /\ set.keys.len >= NumLists
    /\ op.name = "Add" => set.keys.len = NumLists
    /\ ~op.panic
    /\ \A k \in Keys : ~SetAdd(set, k).panic /\ ~SetContains(set, k).panic
    /\ \A i \in (NumLists + 1)..Len(set.keys.arr) : set.keys.arr[i].elems = <<>>

\* After a Reset of a Set of two lists an Add began the first list again:
\* s.keys has one list in range and the second, empty, in its backing array.
C19_Witness ==
    /\ op.name = "Add" /\ op.ret
    /\ NumLists = 1
    /\ set.keys.len = 1
    /\ Len(set.keys.arr) = 2
    /\ set.keys.arr[1].elems = <<op.key>>

============================================================================
